---- MODULE Spec2Model ----
(***************************************************************************)
(* Model of src/app.py: the Flask microservice that answers questions from *)
(* a cached retrieval index or from a direct store search.                 *)
(*                                                                         *)
(* The module-level globals (_index_cache, _ready, _offline_mode,          *)
(* _last_init_attempt) are shared by the worker threads of the server.     *)
(* Every function is split at its reads and writes of those globals, so    *)
(* that requests and initialization attempts interleave as threads do.     *)
(* Calls to the store and to the index are outcomes chosen by the          *)
(* environment (they succeed or raise).                                    *)
(***************************************************************************)
EXTENDS Integers, Sequences, FiniteSets, TLC

\* ------------------------------------------------------------------ bounds
StartTime == 100     \* time.time() when the process starts (seconds)
TickStep == 15       \* the clock advances in steps of this many seconds
MaxElapsed == 45     \* the clock stops StartTime + MaxElapsed
MaxMsgLen == 2       \* longest 'message' string of a request body
MaxDocs == 4         \* most documents in the store's collection

\* --------------------------------------------------------------- constants
Cooldown == 30       \* init_index: time.time() - _last_init_attempt < 30
PreviewLen == 3      \* query: results[:3]

\* Two threads of the server: a race among the reads and writes below has two
\* parties, and the handlers other than init_index write no shared variable.
Threads == {1, 2}
None == 0
Handle(t) == t       \* the index object built by thread t's attempt

Chars == {" ", "a"}
Strings == UNION {[1..n -> Chars] : n \in 0..MaxMsgLen}

\* the questions tried against the store search: letters in both cases and
\* the regular-expression metacharacter "."
SearchChars == {"a", "A", "."}
SearchStrings == UNION {[1..n -> SearchChars] : n \in 0..MaxMsgLen}

\* the 'name' values of the documents in the store
Names == {<<"a">>, <<"A", "b">>, <<"b", "a">>, <<"b">>}

\* a stored document: MongoDB's internal identifier and the fields of the article
Doc(i, n) == ("_id" :> i) @@ ("name" :> n)

\* the collection the service runs against in Spec: MaxDocs articles named "a"
SpecCollection == [i \in 1..MaxDocs |-> Doc(i, <<"a">>)]

\* every collection of at most MaxDocs documents with names in Names
SearchCollections ==
    UNION {{[i \in 1..n |-> Doc(i, f[i])] : f \in [1..n -> Names]} : n \in 0..MaxDocs}

VARIABLES
    MONGO_URI,          \* os.getenv("MONGO_URI", "").strip()
    OPENAI_KEY,         \* os.getenv("OPENAI_API_KEY", "").strip()
    collection,         \* the documents of client[DB_NAME][COLLECTION_NAME]
    index_cache,        \* _index_cache
    ready,              \* _ready
    offline_mode,       \* _offline_mode
    last_init_attempt,  \* _last_init_attempt
    now,                \* time.time()
    pc,                 \* where each thread is
    force,              \* init_index: the force argument of the call in progress
    stamp,              \* init_index: the timestamp the call in progress recorded
    built,              \* init_index: the index object constructed, not yet stored
    req,                \* query: the JSON body of the request in progress
    question,           \* query: the local variable question
    hz,                 \* healthz: the JSON body built, status not yet chosen
    calls,              \* the backends the thread's current or last call contacted
    resp                \* what the thread's last call returned

shared == <<index_cache, ready, offline_mode, last_init_attempt>>
\* the configuration and the store's contents: the service writes neither
config == <<MONGO_URI, OPENAI_KEY, collection>>
locals == <<force, stamp, built, req, question, hz>>
vars == <<MONGO_URI, OPENAI_KEY, collection, index_cache, ready, offline_mode,
          last_init_attempt, now, pc, force, stamp, built, req, question,
          hz, calls, resp>>

\* ----------------------------------------------------------- pure helpers
Has(r, k) == k \in DOMAIN r

Min(a, b) == IF a < b THEN a ELSE b

IsSpace(c) == c = " "

RECURSIVE LStrip(_)
LStrip(s) ==
    IF s # <<>> /\ IsSpace(Head(s)) THEN LStrip(Tail(s)) ELSE s

RECURSIVE RStrip(_)
RStrip(s) ==
    IF s # <<>> /\ IsSpace(s[Len(s)])
    THEN RStrip(SubSeq(s, 1, Len(s) - 1))
    ELSE s

\* a handler that forgets .strip()
Strip_M(s) == s

\* str.strip()
Strip(s) == RStrip(LStrip(s))

\* The JSON bodies a request may carry. "none": no body or not JSON
\* (get_json(silent=True) returns None); "array": a JSON array of len items;
\* "object": a JSON object whose "message" is absent, null, a string or a number.
MessageValues ==
    {[t |-> "absent"], [t |-> "null"]}
    \cup {[t |-> "str", v |-> s] : s \in Strings}
    \cup {[t |-> "num", v |-> n] : n \in {0, 7}}

Bodies ==
    {[kind |-> "none"]}
    \cup {[kind |-> "array", len |-> n] : n \in {0, 1}}
    \cup {[kind |-> "object", message |-> m] : m \in MessageValues}

\* Python truthiness of a parsed JSON body
BodyTruthy(b) ==
    CASE b.kind = "none" -> FALSE
      [] b.kind = "array" -> b.len > 0
      [] b.kind = "object" -> TRUE

\* data = request.get_json(silent=True) or {}
Data(b) == IF BodyTruthy(b) THEN b ELSE [kind |-> "object", message |-> [t |-> "absent"]]

\* data.get("message") raises AttributeError when data is not a dict
GetRaises(d) == d.kind # "object"

\* Python truthiness of the value of data.get("message")
MsgTruthy(m) ==
    CASE m.t = "absent" -> FALSE
      [] m.t = "null" -> FALSE
      [] m.t = "str" -> m.v # <<>>
      [] m.t = "num" -> m.v # 0

\* (data.get("message") or ""): the value when truthy, "" otherwise
MsgOrEmpty(m) == IF MsgTruthy(m) THEN m ELSE [t |-> "str", v |-> <<>>]

\* .strip() raises AttributeError on a value that is not a string
StripRaises(m) == MsgOrEmpty(m).t # "str"

\* question = (data.get("message") or "").strip()
Question(m) == Strip(MsgOrEmpty(m).v)

\* ------------------------------------------------------------- responses
NoResp == [op |-> "none"]

\* An exception that leaves the view function: Flask answers 500 itself
Unhandled(exc) == [op |-> "query", status |-> 500, handled |-> FALSE, exc |-> exc]

Resp400 ==
    [op |-> "query", status |-> 400, handled |-> TRUE,
     body |-> [error |-> "Debe enviar un campo 'message'"]]

RespStandby ==
    [op |-> "query", status |-> 503, handled |-> TRUE,
     body |-> [response |-> "El asistente se esta reactivando, intenta nuevamente en unos segundos.",
               standby |-> TRUE]]

RespOnline(q, h) ==
    [op |-> "query", status |-> 200, handled |-> TRUE,
     body |-> [response |-> [answer_of |-> h, q |-> q],
               elapsed |-> "measured",
               mode |-> "online"]]

\* an offline answer whose "no matches" branch forgets the mode
RespOffline_M(q, results) ==
    [op |-> "query", status |-> 200, handled |-> TRUE,
     body |-> IF results # <<>>
              THEN [response |-> [tmpl |-> "Encontre n coincidencias relacionadas con q",
                                  n |-> Len(results), q |-> q],
                    examples |-> SubSeq(results, 1, Min(Len(results), PreviewLen)),
                    mode |-> "offline"]
              ELSE [response |-> [tmpl |-> "No encontre coincidencias locales para q",
                                  q |-> q]]]

\* results: the documents the search returned, as a sequence
RespOffline(q, results) ==
    [op |-> "query", status |-> 200, handled |-> TRUE,
     body |-> IF results # <<>>
              THEN [response |-> [tmpl |-> "Encontre n coincidencias relacionadas con q",
                                  n |-> Len(results), q |-> q],
                    examples |-> SubSeq(results, 1, Min(Len(results), PreviewLen)),
                    mode |-> "offline"]
              ELSE [response |-> [tmpl |-> "No encontre coincidencias locales para q",
                                  q |-> q],
                    mode |-> "offline"]]

\* an except clause that does not catch the exception
Resp500_M(err) == Unhandled(err)

Resp500(err) ==
    [op |-> "query", status |-> 500, handled |-> TRUE,
     body |-> [response |-> "No pude procesar tu consulta.", error |-> err]]

\* ----------------------------------------------------------------- Init
Init ==
    /\ MONGO_URI \in {"", "mongodb://store"}
    /\ OPENAI_KEY \in {"", "sk-key"}
    /\ collection = SpecCollection
    /\ index_cache = None
    /\ ready = FALSE
    /\ offline_mode = FALSE
    /\ last_init_attempt = 0
    /\ now = StartTime
    /\ pc = [t \in Threads |-> "idle"]
    /\ force = [t \in Threads |-> FALSE]
    /\ stamp = [t \in Threads |-> 0]
    /\ built = [t \in Threads |-> None]
    /\ req = [t \in Threads |-> [kind |-> "none"]]
    /\ question = [t \in Threads |-> <<>>]
    /\ hz = [t \in Threads |-> NoResp]
    /\ calls = [t \in Threads |-> {}]
    /\ resp = [t \in Threads |-> NoResp]

\* ------------------------------------------------------------ transitions
Goto(t, l) == pc' = [pc EXCEPT ![t] = l]

\* the call returns: the thread is idle again and its locals are dropped
Return(t, r) ==
    /\ pc' = [pc EXCEPT ![t] = "idle"]
    /\ resp' = [resp EXCEPT ![t] = r]
    /\ force' = [force EXCEPT ![t] = FALSE]
    /\ stamp' = [stamp EXCEPT ![t] = 0]
    /\ built' = [built EXCEPT ![t] = None]
    /\ req' = [req EXCEPT ![t] = [kind |-> "none"]]
    /\ question' = [question EXCEPT ![t] = <<>>]
    /\ hz' = [hz EXCEPT ![t] = NoResp]

\* a call starts: what the previous call left is forgotten
Enter(t, l) ==
    /\ pc[t] = "idle"
    /\ pc' = [pc EXCEPT ![t] = l]
    /\ resp' = [resp EXCEPT ![t] = NoResp]
    /\ calls' = [calls EXCEPT ![t] = {}]

\* the thread contacts backend b, which answers (ok) or raises
Call(b, ok) == [to |-> b, ok |-> ok]
Contact(t, cs) == calls' = [calls EXCEPT ![t] = calls[t] \cup cs]
Contacted(t) == {c.to : c \in calls[t]}

\* time passes
Tick ==
    /\ now + TickStep <= StartTime + MaxElapsed
    /\ now' = now + TickStep
    /\ UNCHANGED <<config, shared, pc, locals, calls, resp>>

\* ---------------------------------------------------------- init_index
\* a cooldown check with the comparison reversed
CooldownActive_M(f, clock, last) == ~f /\ clock - last > Cooldown

\* if not force and time.time() - _last_init_attempt < 30
CooldownActive(f, clock, last) == ~f /\ clock - last < Cooldown

\* init_index(force) is called
init_index_call(t, f) ==
    /\ Enter(t, "ii_check")
    /\ force' = [force EXCEPT ![t] = f]
    /\ UNCHANGED <<config, shared, now, stamp, built, req, question, hz>>

\* the cooldown check: return at once, or go on
init_index_check(t) ==
    /\ pc[t] = "ii_check"
    /\ IF CooldownActive(force[t], now, last_init_attempt)
       THEN Return(t, [op |-> "init_index", result |-> "cooldown"])
       ELSE Goto(t, "ii_stamp") /\ UNCHANGED <<resp, locals>>
    /\ UNCHANGED <<config, shared, now, calls>>

\* _last_init_attempt = time.time(); raise when MONGO_URI is not configured
init_index_stamp(t) ==
    /\ pc[t] = "ii_stamp"
    /\ last_init_attempt' = now
    /\ IF MONGO_URI = ""
       THEN Return(t, [op |-> "init_index", result |-> "raised",
                       exc |-> "RuntimeError"])
       ELSE /\ Goto(t, "ii_connect")
            /\ stamp' = [stamp EXCEPT ![t] = now]
            /\ UNCHANGED <<resp, force, built, req, question, hz>>
    /\ UNCHANGED <<config, index_cache, ready, offline_mode, now, calls>>

\* connect, ping, load the documents: each may raise
init_index_connect(t) ==
    /\ pc[t] = "ii_connect"
    /\ \E outcome \in {"ping_raises", "load_raises", "loaded"} :
          /\ Contact(t, CASE outcome = "ping_raises" ->
                               {Call("store_ping", FALSE)}
                          [] outcome = "load_raises" ->
                               {Call("store_ping", TRUE), Call("store_load", FALSE)}
                          [] outcome = "loaded" ->
                               {Call("store_ping", TRUE), Call("store_load", TRUE)})
          /\ Goto(t, IF outcome = "loaded" THEN "ii_build" ELSE "ii_exc_ready")
    /\ UNCHANGED <<config, shared, now, locals, resp>>

\* if OPENAI_KEY
BuildsIndex(key) == key # ""

\* an attempt that goes on to publish whatever it holds when the build raises
init_index_build_M(t) ==
    /\ pc[t] = "ii_build"
    /\ IF BuildsIndex(OPENAI_KEY)
       THEN \E ok \in BOOLEAN :
               /\ Contact(t, {Call("index_build", ok)})
               /\ built' = [built EXCEPT ![t] = IF ok THEN Handle(t) ELSE @]
               /\ Goto(t, "ii_set_cache")
       ELSE /\ Goto(t, "ii_clr_cache")
            /\ UNCHANGED <<built, calls>>
    /\ UNCHANGED <<config, shared, now, force, stamp, req, question, hz, resp>>

\* if OPENAI_KEY: GPTVectorStoreIndex.from_documents(docs), which may raise
init_index_build(t) ==
    /\ pc[t] = "ii_build"
    /\ IF BuildsIndex(OPENAI_KEY)
       THEN \E ok \in BOOLEAN :
               /\ Contact(t, {Call("index_build", ok)})
               /\ IF ok
                  THEN /\ built' = [built EXCEPT ![t] = Handle(t)]
                       /\ Goto(t, "ii_set_cache")
                  ELSE /\ Goto(t, "ii_exc_ready")
                       /\ UNCHANGED built
       ELSE /\ Goto(t, "ii_clr_cache")
            /\ UNCHANGED <<built, calls>>
    /\ UNCHANGED <<config, shared, now, force, stamp, req, question, hz, resp>>

\* an attempt that builds the index and forgets to store it
init_index_set_cache_M(t) ==
    /\ pc[t] = "ii_set_cache"
    /\ Goto(t, "ii_set_online")
    /\ UNCHANGED <<config, shared, now, locals, calls, resp>>

\* _index_cache = <the index built>
init_index_set_cache(t) ==
    /\ pc[t] = "ii_set_cache"
    /\ index_cache' = built[t]
    /\ Goto(t, "ii_set_online")
    /\ UNCHANGED <<config, ready, offline_mode, last_init_attempt, now,
                   locals, calls, resp>>

\* _offline_mode = False
init_index_set_online(t) ==
    /\ pc[t] = "ii_set_online"
    /\ offline_mode' = FALSE
    /\ Goto(t, "ii_set_ready")
    /\ UNCHANGED <<config, index_cache, ready, last_init_attempt, now,
                   locals, calls, resp>>

\* _index_cache = None
init_index_clr_cache(t) ==
    /\ pc[t] = "ii_clr_cache"
    /\ index_cache' = None
    /\ Goto(t, "ii_set_offline")
    /\ UNCHANGED <<config, ready, offline_mode, last_init_attempt, now,
                   locals, calls, resp>>

\* _offline_mode = True
init_index_set_offline(t) ==
    /\ pc[t] = "ii_set_offline"
    /\ offline_mode' = TRUE
    /\ Goto(t, "ii_set_ready")
    /\ UNCHANGED <<config, index_cache, ready, last_init_attempt, now,
                   locals, calls, resp>>

\* _ready = True, and the function returns
init_index_set_ready(t) ==
    /\ pc[t] = "ii_set_ready"
    /\ ready' = TRUE
    /\ Return(t, [op |-> "init_index", result |-> "ok"])
    /\ UNCHANGED <<config, index_cache, offline_mode, last_init_attempt, now,
                   calls>>

\* a failure handler that also drops the cached index
init_index_exc_ready_M(t) ==
    /\ pc[t] = "ii_exc_ready"
    /\ ready' = FALSE
    /\ index_cache' = None
    /\ Goto(t, "ii_exc_offline")
    /\ UNCHANGED <<config, offline_mode, last_init_attempt, now,
                   locals, calls, resp>>

\* except Exception: _ready = False
init_index_exc_ready(t) ==
    /\ pc[t] = "ii_exc_ready"
    /\ ready' = FALSE
    /\ Goto(t, "ii_exc_offline")
    /\ UNCHANGED <<config, index_cache, offline_mode, last_init_attempt, now,
                   locals, calls, resp>>

\* except Exception: _offline_mode = True, and the function returns
init_index_exc_offline(t) ==
    /\ pc[t] = "ii_exc_offline"
    /\ offline_mode' = TRUE
    /\ Return(t, [op |-> "init_index", result |-> "failed"])
    /\ UNCHANGED <<config, index_cache, ready, last_init_attempt, now, calls>>

init_index(t) ==
    \/ \E f \in BOOLEAN : init_index_call(t, f)
    \/ init_index_check(t)
    \/ init_index_stamp(t)
    \/ init_index_connect(t)
    \/ init_index_build(t)
    \/ init_index_set_cache(t)
    \/ init_index_set_online(t)
    \/ init_index_clr_cache(t)
    \/ init_index_set_offline(t)
    \/ init_index_set_ready(t)
    \/ init_index_exc_ready(t)
    \/ init_index_exc_offline(t)

\* --------------------------------------------------------- ensure_ready
\* if not _ready: init_index()  else: return
ensure_ready(t) ==
    /\ pc[t] = "idle"
    /\ calls' = [calls EXCEPT ![t] = {}]
    /\ IF ~ready
       THEN /\ Goto(t, "ii_check")
            /\ resp' = [resp EXCEPT ![t] = NoResp]
            /\ UNCHANGED locals
       ELSE Return(t, [op |-> "ensure_ready", result |-> "already"])
    /\ UNCHANGED <<config, shared, now>>

\* ----------------------------------------------------------------- home
\* GET /
home(t) ==
    /\ pc[t] = "idle"
    /\ calls' = [calls EXCEPT ![t] = {}]
    /\ Return(t, [op |-> "home", status |-> 200,
                  body |-> [status |-> "ok",
                            message |-> "Microservicio IA activo",
                            mode |-> IF offline_mode THEN "offline" ELSE "online"]])
    /\ UNCHANGED <<config, shared, now>>

\* -------------------------------------------------------------- healthz
\* the JSON object of GET /healthz
HealthzBody(r, off, uri) ==
    [ok |-> r,
     offline_mode |-> off,
     mongo_uri_configured |-> (uri # ""),
     index_cached |-> r]

\* a status code that ignores the readiness flag
HealthzStatus_M(r) == 200

\* 200 if _ready else 503
HealthzStatus(r) == IF r THEN 200 ELSE 503

\* jsonify({...}) is evaluated first
healthz_body(t) ==
    /\ Enter(t, "hz_status")
    /\ hz' = [hz EXCEPT ![t] = HealthzBody(ready, offline_mode, MONGO_URI)]
    /\ UNCHANGED <<config, shared, now, force, stamp, built, req, question>>

\* then the status code, from a second read of _ready
healthz_status(t) ==
    /\ pc[t] = "hz_status"
    /\ Return(t, [op |-> "healthz", status |-> HealthzStatus(ready),
                  body |-> hz[t]])
    /\ UNCHANGED <<config, shared, now, calls>>

healthz(t) ==
    \/ healthz_body(t)
    \/ healthz_status(t)

\* ---------------------------------------------------------------- query
\* a handler without the readiness gate
Standby_M(r) == FALSE

\* if not _ready
Standby(r) == ~r

\* if not _offline_mode and _index_cache (the second operand)
CacheTruthy(c) == c # None

\* POST /api/query arrives with a body
query_receive(t, b) ==
    /\ Enter(t, "q_validate")
    /\ req' = [req EXCEPT ![t] = b]
    /\ UNCHANGED <<config, shared, now, force, stamp, built, question, hz>>

\* data = ... or {}; question = (data.get("message") or "").strip();
\* if not question: 400. These lines are outside the try block.
query_validate(t) ==
    /\ pc[t] = "q_validate"
    /\ LET d == Data(req[t]) IN
       IF GetRaises(d) \/ StripRaises(d.message)
       THEN Return(t, Unhandled("AttributeError"))
       ELSE IF Question(d.message) = <<>>
       THEN Return(t, Resp400)
       ELSE /\ Goto(t, "q_ready")
            /\ question' = [question EXCEPT ![t] = Question(d.message)]
            /\ req' = [req EXCEPT ![t] = [kind |-> "none"]]
            /\ UNCHANGED <<resp, force, stamp, built, hz>>
    /\ UNCHANGED <<config, shared, now, calls>>

\* if not _ready: 503 standby
query_ready(t) ==
    /\ pc[t] = "q_ready"
    /\ IF Standby(ready)
       THEN Return(t, RespStandby)
       ELSE Goto(t, "q_offline") /\ UNCHANGED <<resp, locals>>
    /\ UNCHANGED <<config, shared, now, calls>>

\* a selection that ignores the offline-mode flag
query_offline_M(t) ==
    /\ pc[t] = "q_offline"
    /\ Goto(t, "q_cache")
    /\ UNCHANGED <<config, shared, now, locals, calls, resp>>

\* if not _offline_mode and ...: the first operand
query_offline(t) ==
    /\ pc[t] = "q_offline"
    /\ Goto(t, IF ~offline_mode THEN "q_cache" ELSE "q_store")
    /\ UNCHANGED <<config, shared, now, locals, calls, resp>>

\* ... and _index_cache: the second operand
query_cache(t) ==
    /\ pc[t] = "q_cache"
    /\ Goto(t, IF CacheTruthy(index_cache) THEN "q_index" ELSE "q_store")
    /\ UNCHANGED <<config, shared, now, locals, calls, resp>>

\* _index_cache.as_query_engine().query(question): _index_cache is read again;
\* None has no as_query_engine (AttributeError), and the query may raise
query_index(t) ==
    /\ pc[t] = "q_index"
    /\ IF index_cache = None
       THEN /\ Return(t, Resp500("AttributeError"))
            /\ UNCHANGED calls
       ELSE \E ok \in BOOLEAN :
               /\ Contact(t, {Call("index_query", ok)})
               /\ Return(t, IF ok
                            THEN RespOnline(question[t], index_cache)
                            ELSE Resp500("index query failed"))
    /\ UNCHANGED <<config, shared, now>>

\* "$options": "i"
Lower(c) == IF c = "A" THEN "a" ELSE c

\* one character of the pattern against one of the text: "." matches any
CharMatches(p, c) == p = "." \/ Lower(p) = Lower(c)

\* the pattern matches the text at position i
MatchesAt(text, pat, i) ==
    /\ i + Len(pat) - 1 <= Len(text)
    /\ \A k \in 1..Len(pat) : CharMatches(pat[k], text[i + k - 1])

\* {"$regex": pat, "$options": "i"}: the pattern matches somewhere in the text
RegexSearch(text, pat) == \E i \in 1..Len(text) : MatchesAt(text, pat, i)

\* a projection that forgets to drop the internal identifier
Project_M(d) == d

\* the projection {"_id": 0}
Project(d) == [k \in DOMAIN d \ {"_id"} |-> d[k]]

\* the documents of the collection whose name the question matches, in order
Matching(coll, q) == SelectSeq(coll, LAMBDA d : RegexSearch(d["name"], q))

\* list(collection.find({"name": {"$regex": question, "$options": "i"}}, {"_id": 0}))
Find(coll, q) == [i \in 1..Len(Matching(coll, q)) |-> Project(Matching(coll, q)[i])]

\* MongoClient(MONGO_URI)...find({"name": {"$regex": question, ...}}), which may raise
query_store(t) ==
    /\ pc[t] = "q_store"
    /\ \E ok \in BOOLEAN :
          /\ Contact(t, {Call("store_search", ok)})
          /\ IF ok
             THEN Return(t, RespOffline(question[t], Find(collection, question[t])))
             ELSE Return(t, Resp500("store search failed"))
    /\ UNCHANGED <<config, shared, now>>

query(t) ==
    \/ \E b \in Bodies : query_receive(t, b)
    \/ query_validate(t)
    \/ query_ready(t)
    \/ query_offline(t)
    \/ query_cache(t)
    \/ query_index(t)
    \/ query_store(t)

\* ------------------------------------------------------------------ Spec
Next ==
    \/ Tick
    \/ \E t \in Threads :
          \/ init_index(t)
          \/ ensure_ready(t)
          \/ home(t)
          \/ healthz(t)
          \/ query(t)

Spec == Init /\ [][Next]_vars

\* ------------------------------------------------------- the store search
\* The service as init_index() leaves it at startup with a store configured and
\* no hosted-API credential: ready, offline, no index. The collection is any
\* of SearchCollections, and thread 1 serves the requests.
InitSearch ==
    /\ MONGO_URI = "mongodb://store"
    /\ OPENAI_KEY = ""
    /\ collection \in SearchCollections
    /\ index_cache = None
    /\ ready = TRUE
    /\ offline_mode = TRUE
    /\ last_init_attempt = StartTime
    /\ now = StartTime
    /\ pc = [t \in Threads |-> "idle"]
    /\ force = [t \in Threads |-> FALSE]
    /\ stamp = [t \in Threads |-> 0]
    /\ built = [t \in Threads |-> None]
    /\ req = [t \in Threads |-> [kind |-> "none"]]
    /\ question = [t \in Threads |-> <<>>]
    /\ hz = [t \in Threads |-> NoResp]
    /\ calls = [t \in Threads |->
                  IF t = 1
                  THEN {Call("store_ping", TRUE), Call("store_load", TRUE)}
                  ELSE {}]
    /\ resp = [t \in Threads |->
                 IF t = 1 THEN [op |-> "init_index", result |-> "ok"] ELSE NoResp]

SearchBodies ==
    {[kind |-> "object", message |-> [t |-> "str", v |-> s]] : s \in SearchStrings}

NextSearch ==
    \/ \E b \in SearchBodies : query_receive(1, b)
    \/ query_validate(1)
    \/ query_ready(1)
    \/ query_offline(1)
    \/ query_store(1)

SpecSearch == InitSearch /\ [][NextSearch]_vars

\* ------------------------------------------------- the local daemon
\* src/app.py has no local inference daemon; the variants of the service that
\* have one are specified as follows: when enabled it is the first backend
\* tried for a validated question; a success status ends the request with the
\* daemon's text and mode "local"; a failure is logged and the request goes
\* on to the next backend.
LocalTexts == {"respuesta 1", "respuesta 2"}

LocalCall(ok, txt) == [to |-> "local_daemon", ok |-> ok, text |-> txt]

\* a handler that tags the daemon's answer as the hosted API's
RespLocal_M(txt) ==
    [op |-> "query", status |-> 200, handled |-> TRUE,
     body |-> [response |-> txt, elapsed |-> "measured", mode |-> "online"]]

RespLocal(txt) ==
    [op |-> "query", status |-> 200, handled |-> TRUE,
     body |-> [response |-> txt, elapsed |-> "measured", mode |-> "local"]]

LocalTried(t) == \E c \in calls[t] : c.to = "local_daemon"

\* the single call to the daemon, first thing after validation
query_local(t) ==
    /\ pc[t] = "q_ready"
    /\ ~LocalTried(t)
    /\ \/ \E txt \in LocalTexts :
             /\ Contact(t, {LocalCall(TRUE, txt)})
             /\ Return(t, RespLocal(txt))
       \/ /\ Contact(t, {LocalCall(FALSE, "")})
          /\ UNCHANGED <<pc, resp, locals>>
    /\ UNCHANGED <<config, shared, now>>

\* the daemon failed: the rest of query() runs
query_after_local(t) ==
    /\ LocalTried(t)
    /\ \/ query_ready(t)
       \/ query_offline(t)
       \/ query_cache(t)
       \/ query_index(t)
       \/ query_store(t)

\* the service with the local daemon enabled; thread 1 acts
NextLocal ==
    \/ Tick
    \/ init_index(1)
    \/ \E b \in Bodies : query_receive(1, b)
    \/ query_validate(1)
    \/ query_local(1)
    \/ query_after_local(1)

SpecLocal == Init /\ [][NextLocal]_vars

\* ---------------------------------------------------------------- claims
\* what the formulas below read of a response
Status(r) == IF Has(r, "status") THEN r.status ELSE 0
Handled(r) == Has(r, "handled") /\ r.handled
Body(r) == IF Has(r, "body") THEN r.body ELSE [none |-> TRUE]

\* thread t takes a step of the call it is in, from label l
StepFrom(t, l) == pc[t] = l /\ pc'[t] # l

\* the labels of query() after the question was validated
QueryBackendPcs == {"q_ready", "q_offline", "q_cache", "q_index", "q_store"}

AllSpace(s) == \A i \in 1..Len(s) : s[i] = " "

\* the request carries no message, or one that is empty or only whitespace
BlankMessage(b) ==
    \/ b.kind = "none"
    \/ /\ b.kind = "object"
       /\ \/ b.message.t = "absent"
          \/ b.message.t = "str" /\ AllSpace(b.message.v)

\* C1: a POST /api/query whose message is missing, empty or only whitespace is
\* answered 400 by the validation step itself: the request ends there, no
\* backend was contacted for it and no shared variable changed.
C1_BlankMessageIs400 ==
    [][\A t \in Threads :
          (StepFrom(t, "q_validate") /\ BlankMessage(req[t]))
          => /\ pc'[t] = "idle"
             /\ Status(resp'[t]) = 400
             /\ Handled(resp'[t])
             /\ calls'[t] = {}
             /\ UNCHANGED shared]_vars

\* a 400 was given while the service was ready with an index cached
C1_Witness ==
    \E t \in Threads :
        /\ Status(resp[t]) = 400
        /\ calls[t] = {}
        /\ ready
        /\ index_cache # None

\* C2: once the question is validated, query() always ends in a structured
\* response (200, 503 or 500) and never lets an exception out; when the
\* backend it contacted raised, the response is the 500 with 'response' and
\* 'error', and that backend is the only one contacted for the request.
C2_FailuresAreStructured ==
    [][\A t \in Threads :
          (pc[t] \in QueryBackendPcs /\ pc'[t] # pc[t])
          => /\ pc'[t] = "idle"
                => /\ resp'[t].op = "query"
                   /\ Handled(resp'[t])
                   /\ Status(resp'[t]) \in {200, 503, 500}
             /\ (\E c \in calls'[t] : ~c.ok)
                => /\ pc'[t] = "idle"
                   /\ Status(resp'[t]) = 500
                   /\ Handled(resp'[t])
                   /\ Has(Body(resp'[t]), "response")
                   /\ Has(Body(resp'[t]), "error")
                   /\ Cardinality(calls'[t]) = 1]_vars

\* the index query raised and the request was answered 500
C2_Witness ==
    \E t \in Threads :
        /\ calls[t] = {Call("index_query", FALSE)}
        /\ Status(resp[t]) = 500
        /\ Handled(resp[t])

ModeTags == {"online", "offline", "local", "ollama", "standby"}

\* the responses query() builds itself for a validated question
IsAnswer(r) == r.op = "query" /\ Handled(r) /\ Status(r) \in {200, 503, 500}

\* C3 as claimed: the 200, the 503 and the 500 alike carry a mode tag.
C3_Original ==
    \A t \in Threads :
        IsAnswer(resp[t])
        => /\ Has(Body(resp[t]), "mode")
           /\ Body(resp[t]).mode \in ModeTags

\* C3: every 200 response carries a mode tag, online or offline; the 503
\* standby response carries standby = true and no mode field, and the 500
\* failure response carries 'response' and 'error' and no mode field.
C3_ModeTagOn200Only ==
    \A t \in Threads :
        IsAnswer(resp[t])
        => LET b == Body(resp[t]) IN
           /\ Status(resp[t]) = 200
                => Has(b, "mode") /\ b.mode \in {"online", "offline"}
           /\ Status(resp[t]) = 503
                => ~Has(b, "mode") /\ Has(b, "standby") /\ b.standby = TRUE
           /\ Status(resp[t]) = 500
                => ~Has(b, "mode") /\ Has(b, "error")

\* one thread holds a 200 answered offline with no match, the other a 500
C3_Witness ==
    \E t, u \in Threads :
        /\ Status(resp[t]) = 200
        /\ Has(Body(resp[t]), "mode")
        /\ Body(resp[t]).mode = "offline"
        /\ ~Has(Body(resp[t]), "examples")
        /\ IsAnswer(resp[u])
        /\ Status(resp[u]) = 500

\* C4: a validated question that finds the readiness flag false is answered
\* 503 with the fixed message and standby = true, and the request ends there:
\* nothing was contacted, no initialization was started, nothing changed.
C4_NotReadyIsStandby ==
    [][\A t \in Threads :
          (StepFrom(t, "q_ready") /\ ~ready)
          => /\ pc'[t] = "idle"
             /\ Status(resp'[t]) = 503
             /\ Body(resp'[t]) =
                   [response |-> "El asistente se esta reactivando, intenta nuevamente en unos segundos.",
                    standby |-> TRUE]
             /\ calls'[t] = {}
             /\ UNCHANGED shared]_vars

\* a standby answer given while a store was configured and an index cached
C4_Witness ==
    \E t \in Threads :
        /\ Status(resp[t]) = 503
        /\ calls[t] = {}
        /\ ~ready
        /\ MONGO_URI # ""
        /\ index_cache # None

\* C5 as claimed: with a store configured and no usable index (none cached,
\* or the readiness flag false), a validated question is answered by the
\* store search, not refused.
C5_StoreSearchAlwaysAvailable ==
    [][\A t \in Threads :
          (/\ pc[t] \in QueryBackendPcs
           /\ pc'[t] = "idle"
           /\ MONGO_URI # ""
           /\ (index_cache = None \/ ~ready))
          => /\ Status(resp'[t]) # 503
             /\ "store_search" \in {c.to : c \in calls'[t]}]_vars

\* C6 as claimed: a validated question that finds the service not ready once
\* the cooldown has elapsed starts a new initialization attempt.
C6_QueryRetriesInit ==
    [][\A t \in Threads :
          (/\ StepFrom(t, "q_ready")
           /\ ~ready
           /\ now - last_init_attempt >= Cooldown)
          => \/ pc'[t] \in {"ii_check", "ii_stamp", "ii_connect"}
             \/ last_init_attempt' = now]_vars

\* the labels of init_index after the store was contacted
TripPcs == {"ii_build", "ii_set_cache", "ii_set_online", "ii_clr_cache",
            "ii_set_offline", "ii_set_ready", "ii_exc_ready", "ii_exc_offline"}

\* thread t is in a non-forced attempt that has contacted the store
InTrip(t) ==
    /\ pc[t] \in TripPcs
    /\ ~force[t]
    /\ "store_ping" \in Contacted(t)

\* a non-forced call that evaluates the cooldown check less than Cooldown
\* seconds after the recorded timestamp returns at once and changes nothing
SuppressedStep(t) ==
    (/\ StepFrom(t, "ii_check")
     /\ ~force[t]
     /\ now - last_init_attempt < Cooldown)
    => /\ pc'[t] = "idle"
       /\ resp'[t] = [op |-> "init_index", result |-> "cooldown"]
       /\ calls'[t] = {}
       /\ UNCHANGED shared

\* C7 as claimed, concurrent requests included: of two non-forced requests
\* less than the cooldown apart only one contacts the store.
C7_Original ==
    [][/\ \A t \in Threads : SuppressedStep(t)
       /\ \A t, u \in Threads :
             (t # u /\ InTrip(t)' /\ InTrip(u)')
             => \/ stamp'[t] - stamp'[u] >= Cooldown
                \/ stamp'[u] - stamp'[t] >= Cooldown]_vars

\* C7: a non-forced request that starts after an earlier attempt has recorded
\* its timestamp, and less than the cooldown after it, returns without
\* contacting the store and leaves index handle, readiness flag, mode flag
\* and backoff timestamp unchanged, whatever the earlier attempts did.
C7_CooldownSuppresses ==
    [][\A t \in Threads : SuppressedStep(t)]_vars

\* a request was suppressed after an attempt that failed
C7_Witness ==
    \E t \in Threads :
        /\ resp[t] = [op |-> "init_index", result |-> "cooldown"]
        /\ calls[t] = {}
        /\ last_init_attempt >= StartTime
        /\ ~ready
        /\ offline_mode

\* C8: GET /healthz answers 503 exactly when it reads the readiness flag
\* false and 200 otherwise, whatever the offline-mode flag and the cache hold.
C8_HealthzStatusIsReadiness ==
    [][\A t \in Threads :
          StepFrom(t, "hz_status")
          => /\ resp'[t].op = "healthz"
             /\ Status(resp'[t]) = 503 <=> ~ready
             /\ Status(resp'[t]) = 200 <=> ready]_vars

\* a 503 from /healthz while an index is cached, after a failed rebuild
C8_Witness ==
    \E t \in Threads :
        /\ resp[t].op = "healthz"
        /\ Status(resp[t]) = 503
        /\ ~ready
        /\ index_cache # None
        /\ \A u \in Threads : pc[u] = "idle"

\* C9 as claimed: the body of /healthz reports the readiness flag, whether a
\* connection string is set, and whether an index handle is cached.
C9_HealthzReportsCache ==
    [][\A t \in Threads :
          (pc[t] = "idle" /\ pc'[t] = "hz_status")
          => /\ hz'[t].ok = ready
             /\ hz'[t].mongo_uri_configured = (MONGO_URI # "")
             /\ hz'[t].index_cached = (index_cache # None)]_vars

\* C10 as claimed: ready implies an index handle is cached.
C10_Original == ready => index_cache # None

\* C10: the readiness flag is true only after an initialization succeeded
\* against a configured store; an index handle is then cached when a hosted-API
\* credential is configured, and with no credential the service is ready
\* with no index, in offline mode.
C10_ReadyAfterInit ==
    ready =>
       /\ MONGO_URI # ""
       /\ OPENAI_KEY # "" => index_cache # None
       /\ OPENAI_KEY = "" => index_cache = None /\ offline_mode

\* ready with an index cached while both threads are idle
C10_Witness ==
    /\ ready
    /\ OPENAI_KEY # ""
    /\ index_cache # None
    /\ \A u \in Threads : pc[u] = "idle"

\* the labels an attempt passes before it fails, and those of its failure handler
BeforeFailurePcs == {"ii_connect", "ii_build"}
FailurePcs == {"ii_exc_ready", "ii_exc_offline"}

\* C11 as claimed: the steps of a failed attempt leave the cached index handle
\* and the offline-mode flag as they were; only the readiness flag is cleared.
C11_Original ==
    [][\A t \in Threads :
          (pc[t] \in FailurePcs /\ pc'[t] # pc[t])
          => UNCHANGED <<index_cache, offline_mode>>]_vars

\* C11: an attempt that fails never writes the cached index handle: it records
\* the attempt timestamp, clears the readiness flag and sets the offline-mode
\* flag to true, whatever the flags were before.
C11_FailureKeepsCache ==
    [][\A t \in Threads :
          /\ (pc[t] \in BeforeFailurePcs /\ pc'[t] # pc[t])
             => UNCHANGED <<index_cache, ready, offline_mode, last_init_attempt>>
          /\ StepFrom(t, "ii_exc_ready")
             => /\ ready' = FALSE
                /\ pc'[t] = "ii_exc_offline"
                /\ UNCHANGED <<index_cache, offline_mode, last_init_attempt>>
          /\ StepFrom(t, "ii_exc_offline")
             => /\ offline_mode' = TRUE
                /\ resp'[t] = [op |-> "init_index", result |-> "failed"]
                /\ UNCHANGED <<index_cache, ready, last_init_attempt>>]_vars

\* a rebuild has failed while the service was ready and online: the handle is
\* still cached, the readiness flag is cleared, the mode flag now says offline
C11_Witness ==
    /\ \E t \in Threads : resp[t] = [op |-> "init_index", result |-> "failed"]
    /\ \A u \in Threads : pc[u] = "idle"
    /\ index_cache # None
    /\ ~ready
    /\ offline_mode

\* thread t's store search has just answered without raising
SearchAnswered(t) ==
    /\ StepFrom(t, "q_store")
    /\ Call("store_search", TRUE) \in calls'[t]

\* the positions of the documents whose name the question matches,
\* case-insensitively, as the store's regular-expression search does
MatchingDocs(coll, q) == {i \in 1..Len(coll) : RegexSearch(coll[i]["name"], q)}

\* C12 as claimed: with the store as the only backend, a search that matches
\* no document is answered 200, mode offline, with the "no matches" message
\* for that question and an 'examples' field that is the empty list.
C12_NoMatchHasEmptyExamples ==
    [][\A t \in Threads :
          (SearchAnswered(t) /\ MatchingDocs(collection, question[t]) = {})
          => LET b == Body(resp'[t]) IN
             /\ Status(resp'[t]) = 200
             /\ Has(b, "mode") /\ b.mode = "offline"
             /\ b.response = [tmpl |-> "No encontre coincidencias locales para q",
                              q |-> question[t]]
             /\ Has(b, "examples")
             /\ b.examples = <<>>]_vars

\* the examples a response lists (none when it has no such field) and the
\* count its message reports (the "no matches" message reports none found)
Examples(b) == IF Has(b, "examples") THEN b.examples ELSE <<>>
ReportedCount(b) == IF Has(b.response, "n") THEN b.response.n ELSE 0

\* C13: on the store-search path the count reported is the number of
\* documents whose name the question matches case-insensitively, the examples
\* are such documents without their internal identifier, there are
\* min(count, 3) of them, and the mode is offline.
C13_SearchReport ==
    [][\A t \in Threads :
          SearchAnswered(t)
          => LET b == Body(resp'[t])
                 m == MatchingDocs(collection, question[t])
             IN
             /\ Status(resp'[t]) = 200
             /\ Has(b, "mode") /\ b.mode = "offline"
             /\ ReportedCount(b) = Cardinality(m)
             /\ Len(Examples(b)) = Min(Cardinality(m), PreviewLen)
             /\ \A j \in 1..Len(Examples(b)) :
                   \E i \in m :
                      Examples(b)[j] = [name |-> collection[i]["name"]]]_vars

\* four documents matched, one of them only because case is ignored, and
\* three examples were listed
C13_Witness ==
    \E t \in Threads :
        LET b == Body(resp[t]) IN
        /\ Status(resp[t]) = 200
        /\ Has(b, "examples")
        /\ Len(b.examples) = PreviewLen
        /\ b.response.n > PreviewLen
        /\ b.response.q = <<"A">>
        /\ \E j \in 1..PreviewLen : b.examples[j] = [name |-> <<"a">>]

\* C14: with the local daemon enabled, a call to it that returns a success
\* status ends the request: the response is the daemon's text, unchanged, with
\* mode "local", and neither the index nor the store was contacted.
C14_LocalAnswersVerbatim ==
    [][\A t \in Threads :
          (/\ pc[t] = "q_ready"
           /\ \E c \in calls'[t] \ calls[t] : c.to = "local_daemon" /\ c.ok)
          => \E txt \in LocalTexts :
                /\ calls'[t] = {LocalCall(TRUE, txt)}
                /\ pc'[t] = "idle"
                /\ Status(resp'[t]) = 200
                /\ Body(resp'[t]).response = txt
                /\ Body(resp'[t]).mode = "local"
                /\ UNCHANGED shared]_vars

\* the daemon answered while the service was ready with an index cached
C14_Witness ==
    \E t \in Threads :
        /\ Status(resp[t]) = 200
        /\ Has(Body(resp[t]), "mode")
        /\ Body(resp[t]).mode = "local"
        /\ calls[t] = {LocalCall(TRUE, Body(resp[t]).response)}
        /\ ready
        /\ index_cache # None

\* C15: a validated question that found the service ready takes the index
\* path exactly when it reads the offline-mode flag false and an index handle
\* cached, and the store search otherwise; the index path queries the index
\* once and answers online (or 500), the store path searches the store once
\* and answers offline (or 500); an online answer comes from a cached index
\* built with a credential configured, and a request contacts one backend.
C15_BackendSelection ==
    [][\A t \in Threads :
          /\ StepFrom(t, "q_offline")
             => /\ pc'[t] = IF offline_mode THEN "q_store" ELSE "q_cache"
                /\ calls'[t] = {}
          /\ StepFrom(t, "q_cache")
             => /\ pc'[t] = IF index_cache # None THEN "q_index" ELSE "q_store"
                /\ calls'[t] = {}
          /\ StepFrom(t, "q_index")
             => /\ pc'[t] = "idle"
                /\ index_cache # None
                /\ OPENAI_KEY # ""
                /\ \E ok \in BOOLEAN : calls'[t] = {Call("index_query", ok)}
                /\ \/ Status(resp'[t]) = 500
                   \/ /\ Status(resp'[t]) = 200
                      /\ Body(resp'[t]).mode = "online"
                      /\ Body(resp'[t]).response.answer_of = index_cache
          /\ StepFrom(t, "q_store")
             => /\ pc'[t] = "idle"
                /\ \E ok \in BOOLEAN : calls'[t] = {Call("store_search", ok)}
                /\ \/ Status(resp'[t]) = 500
                   \/ /\ Status(resp'[t]) = 200
                      /\ Body(resp'[t]).mode = "offline"]_vars

\* a ready service with an index cached and the offline-mode flag set (two
\* attempts raced) has answered from the store
C15_Witness ==
    \E t \in Threads :
        /\ Status(resp[t]) = 200
        /\ Has(Body(resp[t]), "mode")
        /\ Body(resp[t]).mode = "offline"
        /\ calls[t] = {Call("store_search", TRUE)}
        /\ ready
        /\ offline_mode
        /\ index_cache # None
        /\ \A u \in Threads : pc[u] = "idle"

\* C16 as claimed: once every attempt has completed the state is one a single
\* attempt leaves behind, never ready with the offline-mode flag set while an
\* index is cached.
C16_NoMixedState ==
    (\A t \in Threads : pc[t] = "idle")
    => ~(ready /\ offline_mode /\ index_cache # None)

\* the index handles the process can hold
Handles == {Handle(t) : t \in Threads}

\* C17: a query racing an initialization or a forced rebuild never sees a
\* partially built index: an attempt publishes a handle only after its build
\* returned, the index path finds a handle (never None) and answers from a
\* published one, and the cache holds None or one handle.
C17_NoPartialIndex ==
    [][\A t \in Threads :
          /\ StepFrom(t, "ii_set_cache")
             => /\ Call("index_build", TRUE) \in calls[t]
                /\ built[t] = Handle(t)
                /\ index_cache' = built[t]
          /\ StepFrom(t, "q_index")
             => /\ index_cache \in Handles
                /\ Status(resp'[t]) = 200
                   => Body(resp'[t]).response.answer_of \in Handles
          /\ index_cache' \in {None} \cup Handles]_vars

\* a query is about to use the cached index of an earlier attempt while
\* another thread's rebuild is about to publish its own
C17_Witness ==
    \E t, u \in Threads :
        /\ t # u
        /\ pc[t] = "q_index"
        /\ pc[u] = "ii_set_cache"
        /\ index_cache = Handle(t)
        /\ built[u] = Handle(u)

\* C18 as claimed: whatever the body, a request to the query handler ends in
\* one of the handler's own responses.
C18_NoBodyRaises ==
    \A t \in Threads :
        (Has(resp[t], "op") /\ resp[t].op = "query") => Handled(resp[t])

\* C19 as claimed: GET / reports mode online only when the service is ready
\* with an index cached.
C19_HomeModeAgrees ==
    [][\A t \in Threads :
          (/\ resp'[t] # resp[t]
           /\ Has(resp'[t], "op")
           /\ resp'[t].op = "home"
           /\ resp'[t].body.mode = "online")
          => (ready /\ index_cache # None)]_vars

====
